---- MODULE Spec2Model ----
(***************************************************************************)
(* The conversation-turn pipeline of src/app.py (a Streamlit script).      *)
(*                                                                         *)
(* Text is a sequence of one-character strings, so that substring search,  *)
(* str.split and str.strip are computed as Python computes them.  Fixed    *)
(* texts of the program (the prompts, the error message) are sequences of  *)
(* opaque tokens.                                                          *)
(*                                                                         *)
(* Every widget interaction starts one run of the script.  The run of a    *)
(* chat submission blocks in llm.invoke; it is modelled as the step up to  *)
(* the call (Submit) and the step from the call's outcome to the end of    *)
(* the script (InvokeSuccess, InvokeFailure).                              *)
(***************************************************************************)
EXTENDS Integers, Sequences, FiniteSets, TLC

VARIABLES
    messages,         \* st.session_state.messages
    message_count,    \* st.session_state.message_count
    interview_type,   \* st.session_state.interview_type (= the selectbox value)
    pc,               \* position of the pipeline: idle, awaiting, done, error
    trigger,          \* the widget whose interaction started the current run
    user_input,       \* local user_input of the current run
    invoke_messages,  \* local messages: the list handed to llm.invoke
    output,           \* local output (response.content)
    main_content,     \* local main_content
    score_content,    \* local score_content
    exc,              \* the exception caught by the except branch
    screen,           \* chat-area elements rendered by the current run
    logged,           \* records the current run emitted to the logger
    appended,         \* history: appends of each role since the last reset
    cleared           \* history: number of turns the current run's reset discarded

vars == <<messages, message_count, interview_type, pc, trigger, user_input,
          invoke_messages, output, main_content, score_content, exc, screen,
          logged, appended, cleared>>

----------------------------------------------------------------------------
(* Bounds and input sets *)

MaxTurns == 3

MaxPieces == 4

SCORE == <<"S", "c", "o", "r", "e", ":">>

RATING == <<"R", "a", "t", "i", "n", "g", ":">>

DELIM == <<"-", "-", "-">>

Whitespace == {" ", "\n", "\t", "\r"}

UserTexts == {<<"h", "i">>, <<"q">>}

SessionReplies ==
    { <<"o", "k">>,
      <<"a", "\n">> \o DELIM \o <<"\n">> \o SCORE \o <<"7">>,
      RATING \o DELIM \o <<"b">> \o DELIM \o <<"c">> }

Errors == {<<"401 invalid api key">>, <<"timeout">>}

DurationsMs == {4, 1236}

Pieces == {SCORE, RATING, DELIM, <<"-">>, <<" ">>, <<"a">>, <<"\n">>}

RECURSIVE Concats(_)
Concats(n) ==
    IF n = 0 THEN {<<>>}
    ELSE LET prev == Concats(n - 1)
         IN  prev \cup {p \o f : p \in prev, f \in Pieces}

Replies == Concats(MaxPieces)

----------------------------------------------------------------------------
(* Python string and list primitives *)

Contains(s, sub) ==
    \E i \in 1..(Len(s) - Len(sub) + 1) : SubSeq(s, i, i + Len(sub) - 1) = sub

Find(s, sub) ==
    IF Contains(s, sub)
    THEN CHOOSE i \in 1..(Len(s) - Len(sub) + 1) :
            /\ SubSeq(s, i, i + Len(sub) - 1) = sub
            /\ \A j \in 1..(i - 1) : SubSeq(s, j, j + Len(sub) - 1) # sub
    ELSE 0

RECURSIVE Split(_, _)
Split(s, sep) ==
    LET i == Find(s, sep)
    IN  IF i = 0 THEN <<s>>
        ELSE <<SubSeq(s, 1, i - 1)>> \o Split(SubSeq(s, i + Len(sep), Len(s)), sep)

RECURSIVE LStrip(_)
LStrip(s) ==
    IF s # <<>> /\ Head(s) \in Whitespace THEN LStrip(Tail(s)) ELSE s

RECURSIVE RStrip(_)
RStrip(s) ==
    IF s # <<>> /\ s[Len(s)] \in Whitespace
    THEN RStrip(SubSeq(s, 1, Len(s) - 1)) ELSE s

Strip(s) == RStrip(LStrip(s))

AllButLast(s) == IF s = <<>> THEN <<>> ELSE SubSeq(s, 1, Len(s) - 1)

----------------------------------------------------------------------------
(* Static data and utility functions of app.py *)

Options ==
    {"General", "Frontend", "Backend", "System Design", "Data Structures",
     "Behavioral"}

INTERVIEW_PROMPTS ==
    [c \in Options |-> <<"<" \o c \o " interviewer prompt>">>]

get_system_prompt(type) ==
    IF type \in DOMAIN INTERVIEW_PROMPTS
    THEN INTERVIEW_PROMPTS[type]
    ELSE INTERVIEW_PROMPTS["General"]

format_conversation_history(msgs) ==
    [i \in 1..Len(msgs) |-> [role |-> msgs[i].role, content |-> msgs[i].content]]

parse_no_trigger_check(response) ==
    LET parts == Split(response, DELIM)
    IN  IF Len(parts) > 1
        THEN <<Strip(parts[1]), Strip(parts[2])>>
        ELSE <<response, <<>>>>

parse_response_with_score(response) ==
    IF Contains(response, SCORE) \/ Contains(response, RATING)
    THEN LET parts == Split(response, DELIM)
         IN  IF Len(parts) > 1
             THEN <<Strip(parts[1]), Strip(parts[2])>>
             ELSE <<response, <<>>>>
    ELSE <<response, <<>>>>

\* "{duration:.2f}": seconds with two decimals, here hundredths from milliseconds
Fmt2f(ms) == (ms + 5) \div 10

log_interaction(type, input, response, ms) ==
    [level |-> "INFO", type |-> type, input_length |-> Len(input),
     response_length |-> Len(response), duration |-> Fmt2f(ms)]

log_error(e) ==
    [level |-> "ERROR", message |-> <<"Error processing response: ">> \o e]

ERROR_MESSAGE ==
    <<"An error occurred while processing your request. ",
      "Please verify your API key is valid and try again.">>

TROUBLESHOOTING ==
    <<"Troubleshooting:\n",
      "1. Verify GROQ_API_KEY in your .env file\n",
      "2. Check your internet connection\n",
      "3. Ensure your API key is still valid\n",
      "4. Try with a shorter input">>

Element(el, role, text) == [el |-> el, role |-> role, text |-> text]

RenderHistory(msgs) ==
    [i \in 1..Len(msgs) |-> Element("markdown", msgs[i].role, msgs[i].content)]

AppendUserAsHuman(msgs, text) ==
    Append(msgs, [role |-> "human", content |-> text])

AppendUser(msgs, text) ==
    Append(msgs, [role |-> "user", content |-> text])

AssistantTurnOfMain(out, main) == [role |-> "assistant", content |-> main]

AssistantTurn(out, main) == [role |-> "assistant", content |-> out]

AppendAssistantOverLast(msgs, turn) == Append(AllButLast(msgs), turn)

AppendAssistant(msgs, turn) == Append(msgs, turn)

NoAppends == [user |-> 0, assistant |-> 0]

----------------------------------------------------------------------------
(* The script runs.  While a run is blocked in llm.invoke (pc = "awaiting") *)
(* no widget interaction is accepted: one pipeline invocation at a time.   *)

NoLocals ==
    /\ user_input' = <<>>
    /\ invoke_messages' = <<>>
    /\ output' = <<>>
    /\ main_content' = <<>>
    /\ score_content' = <<>>
    /\ exc' = <<>>
    /\ logged' = <<>>

Init ==
    /\ messages = <<>>
    /\ message_count = 0
    /\ interview_type = "General"
    /\ pc = "idle"
    /\ trigger = "load"
    /\ user_input = <<>>
    /\ invoke_messages = <<>>
    /\ output = <<>>
    /\ main_content = <<>>
    /\ score_content = <<>>
    /\ exc = <<>>
    /\ screen = <<>>
    /\ logged = <<>>
    /\ appended = NoAppends
    /\ cleared = 0

\* The selectbox is changed: the script reruns and renders the stored history.
SelectCategory(c) ==
    /\ pc # "awaiting"
    /\ c # interview_type
    /\ interview_type' = c
    /\ trigger' = "selectbox"
    /\ pc' = "idle"
    /\ screen' = RenderHistory(messages)
    /\ cleared' = 0
    /\ NoLocals
    /\ UNCHANGED <<messages, message_count, appended>>

ClearHistoryKeepCount ==
    /\ pc # "awaiting"
    /\ messages' = <<>>
    /\ message_count' = message_count
    /\ trigger' = "Clear History"
    /\ pc' = "idle"
    /\ screen' = RenderHistory(messages')
    /\ appended' = NoAppends
    /\ cleared' = Len(messages)
    /\ NoLocals
    /\ UNCHANGED interview_type

\* "Clear History": both fields are assigned, then st.rerun() renders anew.
ClearHistory ==
    /\ pc # "awaiting"
    /\ messages' = <<>>
    /\ message_count' = 0
    /\ trigger' = "Clear History"
    /\ pc' = "idle"
    /\ screen' = RenderHistory(messages')
    /\ appended' = NoAppends
    /\ cleared' = Len(messages)
    /\ NoLocals
    /\ UNCHANGED interview_type

NewSessionKeepMessages ==
    /\ pc # "awaiting"
    /\ messages' = messages
    /\ message_count' = 0
    /\ trigger' = "New Session"
    /\ pc' = "idle"
    /\ screen' = RenderHistory(messages')
    /\ appended' = NoAppends
    /\ cleared' = Len(messages)
    /\ NoLocals
    /\ UNCHANGED interview_type

\* "New Session": the same two assignments and rerun.
NewSession ==
    /\ pc # "awaiting"
    /\ messages' = <<>>
    /\ message_count' = 0
    /\ trigger' = "New Session"
    /\ pc' = "idle"
    /\ screen' = RenderHistory(messages')
    /\ appended' = NoAppends
    /\ cleared' = Len(messages)
    /\ NoLocals
    /\ UNCHANGED interview_type

\* A chat submission, up to the call of llm.invoke.
Submit(t) ==
    /\ pc # "awaiting"
    /\ message_count < MaxTurns
    /\ t # <<>>
    /\ trigger' = "chat_input"
    /\ user_input' = t
    /\ messages' = AppendUser(messages, t)
    /\ message_count' = message_count + 1
    /\ appended' = [appended EXCEPT !.user = @ + 1]
    /\ screen' = RenderHistory(messages) \o <<Element("markdown", "user", t)>>
    /\ invoke_messages' =
           <<[role |-> "system", content |-> get_system_prompt(interview_type)]>>
           \o format_conversation_history(AllButLast(messages'))
    /\ pc' = "awaiting"
    /\ output' = <<>>
    /\ main_content' = <<>>
    /\ score_content' = <<>>
    /\ exc' = <<>>
    /\ logged' = <<>>
    /\ cleared' = 0
    /\ UNCHANGED interview_type

\* llm.invoke returns reply after ms milliseconds; the rest of the try block.
InvokeSuccess(reply, ms) ==
    /\ pc = "awaiting"
    /\ output' = reply
    /\ main_content' = parse_response_with_score(reply)[1]
    /\ score_content' = parse_response_with_score(reply)[2]
    /\ screen' = screen
           \o <<Element("markdown", "assistant", main_content')>>
           \o (IF score_content' # <<>>
               THEN <<Element("feedback-score", "assistant", score_content')>>
               ELSE <<>>)
    /\ logged' = Append(logged, log_interaction(interview_type, user_input, reply, ms))
    /\ messages' = AppendAssistant(messages, AssistantTurn(reply, main_content'))
    /\ appended' = [appended EXCEPT !.assistant = @ + 1]
    /\ pc' = "done"
    /\ UNCHANGED <<message_count, interview_type, trigger, user_input,
                   invoke_messages, exc, cleared>>

InvokeFailureRollback(e) ==
    /\ pc = "awaiting"
    /\ exc' = e
    /\ logged' = Append(logged, log_error(e))
    /\ screen' = screen
           \o <<Element("error", "assistant", ERROR_MESSAGE),
                Element("info", "assistant", TROUBLESHOOTING)>>
    /\ messages' = AllButLast(messages)
    /\ message_count' = message_count - 1
    /\ pc' = "error"
    /\ UNCHANGED <<interview_type, trigger, user_input, invoke_messages, output,
                   main_content, score_content, appended, cleared>>

InvokeFailureShowDetail(e) ==
    /\ pc = "awaiting"
    /\ exc' = e
    /\ logged' = Append(logged, log_error(e))
    /\ screen' = screen
           \o <<Element("error", "assistant", ERROR_MESSAGE \o e),
                Element("info", "assistant", TROUBLESHOOTING)>>
    /\ pc' = "error"
    /\ UNCHANGED <<messages, message_count, interview_type, trigger, user_input,
                   invoke_messages, output, main_content, score_content,
                   appended, cleared>>

\* llm.invoke raises e; the except branch.
InvokeFailure(e) ==
    /\ pc = "awaiting"
    /\ exc' = e
    /\ logged' = Append(logged, log_error(e))
    /\ screen' = screen
           \o <<Element("error", "assistant", ERROR_MESSAGE),
                Element("info", "assistant", TROUBLESHOOTING)>>
    /\ pc' = "error"
    /\ UNCHANGED <<messages, message_count, interview_type, trigger, user_input,
                   invoke_messages, output, main_content, score_content,
                   appended, cleared>>

Next ==
    \/ \E c \in Options : SelectCategory(c)
    \/ ClearHistory
    \/ NewSession
    \/ \E t \in UserTexts : Submit(t)
    \/ \E reply \in SessionReplies, ms \in DurationsMs : InvokeSuccess(reply, ms)
    \/ \E e \in Errors : InvokeFailure(e)

Spec == Init /\ [][Next]_vars

----------------------------------------------------------------------------
(* parse_response_with_score on its own, over every reply built of at most *)
(* MaxPieces pieces.                                                       *)

SplitInit ==
    /\ messages = <<>>
    /\ message_count = 0
    /\ interview_type = "General"
    /\ pc = "parsing"
    /\ trigger = "load"
    /\ user_input = <<>>
    /\ invoke_messages = <<>>
    /\ output \in Replies
    /\ main_content = <<>>
    /\ score_content = <<>>
    /\ exc = <<>>
    /\ screen = <<>>
    /\ logged = <<>>
    /\ appended = NoAppends
    /\ cleared = 0

ParseReply ==
    /\ pc = "parsing"
    /\ main_content' = parse_response_with_score(output)[1]
    /\ score_content' = parse_response_with_score(output)[2]
    /\ pc' = "parsed"
    /\ UNCHANGED <<messages, message_count, interview_type, trigger, user_input,
                   invoke_messages, output, exc, screen, logged, appended, cleared>>

SplitNext == ParseReply

SplitSpec == SplitInit /\ [][SplitNext]_vars

----------------------------------------------------------------------------
(* Claims *)

Resets == {"Clear History", "New Session"}

Roles(msgs) == [i \in 1..Len(msgs) |-> msgs[i].role]

UserTurns(msgs) == {i \in 1..Len(msgs) : msgs[i].role = "user"}

IsPrefix(a, b) == Len(a) <= Len(b) /\ SubSeq(b, 1, Len(a)) = a

HasTrigger(s) == Contains(s, SCORE) \/ Contains(s, RATING)

UserTurnOf(t) == [role |-> "user", content |-> t]

SystemTurn == [role |-> "system", content |-> INTERVIEW_PROMPTS[interview_type]]

\* C1: the list handed to the model on a submission is the system turn of the
\* active category, then the history stored before the submission, then the
\* just-submitted user turn: length |H| + 2, the user turn last.
C1_DispatchIncludesSubmittedTurn ==
    pc = "awaiting" =>
        /\ invoke_messages
               = <<SystemTurn>> \o AllButLast(messages) \o <<UserTurnOf(user_input)>>
        /\ Len(invoke_messages) = Len(AllButLast(messages)) + 2
        /\ invoke_messages[Len(invoke_messages)] = UserTurnOf(user_input)

\* C2: a failed invocation leaves history and message_count as the submission
\* set them (the user turn last, not rolled back, the count incremented), appends
\* no assistant turn, and leaves the session ready for the next submission.
C2_FailureKeepsUserTurn ==
    /\ [][(pc = "awaiting" /\ pc' = "error") =>
            /\ messages' = messages
            /\ messages'[Len(messages')] = UserTurnOf(user_input')
            /\ message_count' = message_count
            /\ message_count' = Cardinality(UserTurns(messages'))
            /\ appended' = appended]_vars
    /\ [](pc = "error" /\ message_count < MaxTurns =>
            \A t \in UserTexts : ENABLED Submit(t))

C2_Witness ==
    /\ pc = "error"
    /\ Roles(messages) = <<"user", "assistant", "user">>
    /\ messages[3].content = user_input
    /\ message_count = 2

\* C3: message_count is the number of user turns in history, and the length of
\* history is the number of user appends plus assistant appends since the last
\* reset.
C3_CountersMatchHistory ==
    /\ message_count = Cardinality(UserTurns(messages))
    /\ message_count = appended.user
    /\ Len(messages) = appended.user + appended.assistant

C3_Witness ==
    /\ Roles(messages) = <<"user", "user", "assistant">>
    /\ message_count = 2
    /\ appended = [user |-> 2, assistant |-> 1]
    /\ pc = "done"

\* C4: every step that is not a reset keeps the previous history as a prefix of
\* the new one and adds at most one turn.
C4_AppendOnly ==
    [][trigger' \notin Resets =>
          /\ IsPrefix(messages, messages')
          /\ Len(messages') <= Len(messages) + 1]_vars

C4_Witness ==
    /\ pc = "done"
    /\ Len(messages) = 4
    /\ messages[4].role = "assistant"
    /\ messages[1].content # messages[3].content

\* C5: after Clear History or New Session history is empty and message_count is
\* 0 whatever was stored before, and the render that follows shows no turn.
C5_ResetClearsBoth ==
    trigger \in Resets =>
        /\ messages = <<>>
        /\ message_count = 0
        /\ screen = <<>>

C5_Witness ==
    /\ trigger = "New Session"
    /\ cleared >= 3
    /\ messages = <<>>
    /\ message_count = 0

\* C6: after a successful invocation the assistant turn stored last holds the raw
\* reply, also when the reply was split for display.
C6_StoredReplyIsRaw ==
    pc = "done" =>
        /\ messages # <<>>
        /\ messages[Len(messages)] = [role |-> "assistant", content |-> output]

C6_Witness ==
    /\ pc = "done"
    /\ score_content # <<>>
    /\ main_content # output
    /\ messages[Len(messages)].content = output
    /\ screen[Len(screen)] = Element("feedback-score", "assistant", score_content)
    /\ screen[Len(screen) - 1] = Element("markdown", "assistant", main_content)

\* C7: for a reply with a trigger and the delimiter, mainContent is the trimmed
\* text before the first delimiter and scoreContent the trimmed text after it,
\* all of it.
C7_SplitAtFirstDelimiter ==
    (pc = "parsed" /\ HasTrigger(output) /\ Contains(output, DELIM)) =>
        LET i == Find(output, DELIM)
        IN  /\ main_content = Strip(SubSeq(output, 1, i - 1))
            /\ score_content = Strip(SubSeq(output, i + Len(DELIM), Len(output)))

\* C8: a reply without a trigger, or with a trigger and no delimiter, comes back
\* whole and untrimmed as mainContent, with an empty scoreContent.
C8_NoSplitReturnsWhole ==
    (pc = "parsed" /\ (~HasTrigger(output) \/ ~Contains(output, DELIM))) =>
        /\ main_content = output
        /\ score_content = <<>>

C8_Witness ==
    /\ pc = "parsed"
    /\ ~HasTrigger(output)
    /\ Contains(output, DELIM)
    /\ Head(output) \in Whitespace
    /\ main_content = output
    /\ score_content = <<>>

FailureScreen ==
    /\ Len(screen) = Len(messages) + 2
    /\ SubSeq(screen, Len(screen) - 1, Len(screen))
           = <<Element("error", "assistant", ERROR_MESSAGE),
               Element("info", "assistant", TROUBLESHOOTING)>>
    /\ Len(TROUBLESHOOTING) = 5
    /\ \A i \in 1..Len(screen) : ~Contains(screen[i].text, exc)

\* C9 as stated: a failure is logged with the active category, the input length
\* and the duration so far, and the user sees only the fixed message and list.
C9_FailureLoggedWithContext ==
    pc = "error" =>
        /\ \E i \in 1..Len(logged) :
              /\ {"type", "input_length", "duration"} \subseteq DOMAIN logged[i]
              /\ logged[i].type = interview_type
              /\ logged[i].input_length = Len(user_input)
        /\ FailureScreen

\* C9 as amended: a failure is logged as one error record holding the failure
\* detail and nothing else, and the user sees only the fixed message and list,
\* never the detail.
C9_FailureLoggedDetailOnly ==
    pc = "error" =>
        /\ Len(logged) = 1
        /\ DOMAIN logged[1] = {"level", "message"}
        /\ logged[1].level = "ERROR"
        /\ logged[1].message = <<"Error processing response: ">> \o exc
        /\ FailureScreen

C9_Witness ==
    /\ pc = "error"
    /\ exc \in Errors
    /\ Len(logged) = 1
    /\ Contains(logged[1].message, exc)
    /\ screen[Len(screen)].el = "info"
    /\ Len(messages) = 3

\* C10: history holds only user and assistant turns, starts with a user turn,
\* and every assistant turn directly follows a user turn.
C10_TurnsAlternateFromUser ==
    /\ \A i \in 1..Len(messages) : messages[i].role \in {"user", "assistant"}
    /\ messages # <<>> => messages[1].role = "user"
    /\ \A i \in 1..Len(messages) :
          messages[i].role = "assistant" => (i > 1 /\ messages[i - 1].role = "user")

C10_Witness ==
    /\ Roles(messages) = <<"user", "user", "user", "assistant">>
    /\ pc = "done"

====
